---------------------------- MODULE Spec2Model ----------------------------
(***************************************************************************)
(* ImString / ImStr of imgui-rs (src/string.rs).                           *)
(*                                                                         *)
(* An ImString is a Vec<u8>: a stored length `len`, an allocation of       *)
(* `cap` bytes `mem`, of which the Vec owns the first `len`.  The foreign  *)
(* side (Dear ImGui) writes bytes of the allocation in place through the   *)
(* raw pointer, without touching `len`.  An ImStr is a CStr: a byte slice  *)
(* `inner` whose last byte is taken to be the terminator.                  *)
(***************************************************************************)
EXTENDS Integers, Sequences, FiniteSets, TLC

VARIABLES
    b,      \* the ImString under observation: [len, cap, mem]
    op,     \* the last operation: its name and its arguments
    ub,     \* TRUE once an operation has read or written outside its allocation
    v1, v2, \* two ImStr views (the `inner` slice of each one's CStr)
    b2      \* a second ImString, to compare b with

vars == <<b, op, ub, v1, v2, b2>>

---------------------------------------------------------------------------
(* Bounds *)

MaxText == 2        \* longest text handed to new / push_str
MaxCap == 4         \* largest allocation (in bytes) the model follows
MaxSlice == 3       \* longest byte slice handed to ImStr::from_utf8_with_nul_unchecked
MaxAdditional == 2  \* largest argument of reserve / reserve_exact / with_capacity

---------------------------------------------------------------------------
(* Bytes *)

NUL == 0            \* b'\0'
UNINIT == -1        \* a byte of spare capacity nobody has written yet

\* Bytes of text: NUL itself (U+0000 is valid UTF-8) and one ASCII letter.
TextBytes == {NUL, 1}

\* Every valid UTF-8 text up to MaxText bytes.
Texts == UNION {[1..n -> TextBytes] : n \in 0..MaxText}

\* The chars handed to push: U+0000, U+0001 and U+00E9 (two bytes in UTF-8).
Chars == {0, 1, 233}

\* Byte slices that contain a terminator somewhere within their range.
ByteSlices ==
    {s \in UNION {[1..n -> TextBytes] : n \in 1..MaxSlice} :
        \E i \in 1..Len(s) : s[i] = NUL}

Uninit(n) == [i \in 1..n |-> UNINIT]

\* char::encode_utf8 for code points below U+0800.
encode_utf8(ch) ==
    IF ch < 128 THEN <<ch>> ELSE <<192 + (ch \div 64), 128 + (ch % 64)>>

---------------------------------------------------------------------------
(* Vec<u8> *)

\* Vec::with_capacity(n): n bytes of spare capacity, none of them written.
Vec_with_capacity(n) == [len |-> 0, cap |-> n, mem |-> Uninit(n)]

\* The capacities a growing Vec may end with when `additional` more elements
\* must fit: the one it has when they fit already, any that holds them
\* otherwise (the amortized growth policy is the allocator's choice).
GrowCaps(v, additional) ==
    IF v.cap - v.len >= additional
    THEN {v.cap}
    ELSE (v.len + additional)..MaxCap

\* realloc: the whole old block is kept, the rest is spare capacity.
Vec_grow(v, c) ==
    [v EXCEPT !.cap = c, !.mem = v.mem \o Uninit(c - v.cap)]

\* Vec::reserve(additional), the grown capacity being c.
Vec_reserve(v, additional, c) ==
    IF v.cap - v.len >= additional THEN v ELSE Vec_grow(v, c)

\* Vec::reserve_exact(additional): grows to len + additional exactly.
Vec_reserve_exact(v, additional) ==
    IF v.cap - v.len >= additional THEN v ELSE Vec_grow(v, v.len + additional)

\* Vec::push(x), the capacity after it being c.
Vec_push(v, x, c) ==
    LET g == Vec_reserve(v, 1, c)
    IN  [g EXCEPT !.mem[g.len + 1] = x, !.len = g.len + 1]

\* Vec::extend_from_slice(s), the capacity after it being c.
Vec_extend_from_slice(v, s, c) ==
    LET g == Vec_reserve(v, Len(s), c)
    IN  [len |-> g.len + Len(s),
         cap |-> g.cap,
         mem |-> [i \in 1..g.cap |->
                    IF g.len < i /\ i <= g.len + Len(s)
                    THEN s[i - g.len] ELSE g.mem[i]]]

\* Vec::clear(): the length drops to 0, the allocation stays.
Vec_clear(v) == [v EXCEPT !.len = 0]

\* Vec::set_len(n).
Vec_set_len(v, n) == [v EXCEPT !.len = n]

---------------------------------------------------------------------------
(* CStr *)

NulIx(mem) == {i \in 1..Len(mem) : mem[i] = NUL}

\* 1-based position of the first zero byte of the allocation.
FirstNul(mem) == CHOOSE i \in NulIx(mem) : \A j \in NulIx(mem) : i <= j

\* CStr::from_ptr (strlen) stays inside the allocation and inside written
\* bytes: there is a zero byte and every byte before it has been written.
InBounds(v) ==
    /\ NulIx(v.mem) # {}
    /\ \A j \in 1..FirstNul(v.mem) : v.mem[j] # UNINIT

\* CStr::to_bytes: the slice without its last byte.
CStr_to_bytes(inner) == SubSeq(inner, 1, Len(inner) - 1)

\* CStr::to_bytes_with_nul: the whole slice.
CStr_to_bytes_with_nul(inner) == inner

\* slice comparison (Ord for [u8]): "Less", "Equal" or "Greater".
RECURSIVE slice_cmp(_, _)
slice_cmp(x, y) ==
    IF x = <<>> /\ y = <<>> THEN "Equal"
    ELSE IF x = <<>> THEN "Less"
    ELSE IF y = <<>> THEN "Greater"
    ELSE IF Head(x) < Head(y) THEN "Less"
    ELSE IF Head(x) > Head(y) THEN "Greater"
    ELSE slice_cmp(Tail(x), Tail(y))

\* PartialEq for CStr compares to_bytes().
CStr_eq(x, y) == CStr_to_bytes(x) = CStr_to_bytes(y)

\* PartialOrd / Ord for CStr compare to_bytes().
CStr_cmp(x, y) == slice_cmp(CStr_to_bytes(x), CStr_to_bytes(y))

\* Hash for CStr is derived: the hasher is fed the length of `inner` and
\* then every byte of it.  Two hashes are sure to agree only on equal feeds.
CStr_hash(x) == <<Len(x)>> \o x

---------------------------------------------------------------------------
(* ImStr: a view, represented by the `inner` slice of its CStr *)

\* ImStr::from_utf8_with_nul_unchecked(bytes): the slice itself, reinterpreted.
ImStr_from_utf8_with_nul_unchecked(bytes) == bytes

\* ImStr::to_str: the CStr's to_bytes(), taken as UTF-8.
to_str(view) == CStr_to_bytes(view)

\* <&ImStr>::default(): a view of the static slice [0].
ImStr_default == ImStr_from_utf8_with_nul_unchecked(<<NUL>>)

\* ToOwned for ImStr: CString::from(&CStr) copies the slice into a box of
\* exactly its size; CString::into_bytes turns the box into a Vec and pops
\* the last byte, which stays in the allocation behind the stored length.
to_owned(view) ==
    LET boxed == CStr_to_bytes_with_nul(view)
    IN  [len |-> Len(boxed) - 1, cap |-> Len(boxed), mem |-> boxed]

---------------------------------------------------------------------------
(* ImString *)

\* from_utf8_unchecked without the push of the terminator.
from_utf8_unchecked_unterminated(v, c) == v

\* ImString::from_utf8_unchecked(v): pushes the terminator.
from_utf8_unchecked(v, c) == Vec_push(v, NUL, c)

\* ImString::new(value): value.into() is a String of capacity scap.
new(value, scap, c) ==
    from_utf8_unchecked(
        [len |-> Len(value), cap |-> scap,
         mem |-> value \o Uninit(scap - Len(value))], c)

\* ImString::with_capacity(capacity).
with_capacity(capacity) ==
    Vec_push(Vec_with_capacity(capacity + 1), NUL, capacity + 1)

\* ImString::from_utf8_with_nul_unchecked(v).
ImString_from_utf8_with_nul_unchecked(v) == v

\* Default derived for the newtype instead: an empty Vec, no terminator.
default_derived == [len |-> 0, cap |-> 0, mem |-> <<>>]

\* Default for ImString: vec![0].
default == ImString_from_utf8_with_nul_unchecked(
               [len |-> 1, cap |-> 1, mem |-> <<NUL>>])

\* derive(Clone): Vec::clone copies the first `len` bytes into an
\* allocation of exactly that size.
clone(s) == [len |-> s.len, cap |-> s.len, mem |-> SubSeq(s.mem, 1, s.len)]

\* ImString::clear.
clear(s, c) == Vec_push(Vec_clear(s), NUL, c)

\* Deref for ImString: CStr::from_ptr scans from the start of the
\* allocation to the first zero byte; the view ends with that byte.
deref(s) == SubSeq(s.mem, 1, FirstNul(s.mem))

\* refresh_len that trusts the stored length.
refresh_len_trusting(s) == s

\* ImString::refresh_len.
refresh_len(s) == Vec_set_len(s, Len(to_str(deref(s))))

\* ImString::push_str(string); c1, c2 are the capacities after the
\* extend and after the push.
push_str(s, string, c1, c2) ==
    Vec_push(Vec_extend_from_slice(refresh_len(s), string, c1), NUL, c2)

\* ImString::push(ch).
push(s, ch, c1, c2) == push_str(s, encode_utf8(ch), c1, c2)

\* usize arithmetic wraps at this modulus (a scaled-down 2^64).
UsizeModulus == 2^20

\* ImString::capacity: self.0.capacity() - 1 in usize.
capacity(s) == (s.cap - 1) % UsizeModulus

\* ImString::capacity_with_nul.
capacity_with_nul(s) == s.cap

\* ImString::reserve(additional), the grown capacity being c.
reserve(s, additional, c) == Vec_reserve(s, additional, c)

\* ImString::reserve_exact(additional).
reserve_exact(s, additional) == Vec_reserve_exact(s, additional)

\* From<&T> for ImString, T: AsRef<ImStr>.
from_ref(view) == to_owned(view)

---------------------------------------------------------------------------
(* The state machine: one ImString b, driven by the owning side's API and    *)
(* by the foreign side's in-place writes.  An operation that scans an      *)
(* allocation holding no terminator reads outside it: undefined behaviour, *)
(* after which nothing is known of the program (ub, and no further step).  *)

Op(name, text, n, view) ==
    [name |-> name, text |-> text, n |-> n, view |-> view]

\* ImString::new(value), value: &str or String (any capacity scap).
InitNew ==
    \E value \in Texts : \E scap \in Len(value)..MaxCap :
      \E c \in GrowCaps([len |-> Len(value), cap |-> scap], 1) :
         /\ b = new(value, scap, c)
         /\ op = Op("new", value, 0, <<>>)

\* ImString::with_capacity(capacity).
InitWithCapacity ==
    \E n \in 0..(MaxCap - 1) :
         /\ b = with_capacity(n)
         /\ op = Op("with_capacity", <<>>, n, <<>>)

\* ImString::default().
InitDefault ==
    /\ b = default
    /\ op = Op("default", <<>>, 0, <<>>)

\* ImStr::from_utf8_with_nul_unchecked(bytes).to_owned().
InitToOwned ==
    \E bytes \in ByteSlices :
       LET view == ImStr_from_utf8_with_nul_unchecked(bytes)
       IN  /\ b = to_owned(view)
           /\ op = Op("to_owned", <<>>, 0, view)

\* ImString::from(view), view = ImStr::from_utf8_with_nul_unchecked(bytes).
InitFromRef ==
    \E bytes \in ByteSlices :
       LET view == ImStr_from_utf8_with_nul_unchecked(bytes)
       IN  /\ b = from_ref(view)
           /\ op = Op("from", <<>>, 0, view)

\* The state after construction, by any of the constructors.
Init ==
    /\ InitNew \/ InitWithCapacity \/ InitDefault \/ InitToOwned \/ InitFromRef
    /\ ub = FALSE
    /\ v1 = ImStr_default
    /\ v2 = ImStr_default
    /\ b2 = default

\* (&*b).to_owned(): the ImString is viewed (Deref) and the view copied.
ToOwned ==
    /\ ~ub
    /\ IF InBounds(b)
       THEN /\ b' = to_owned(deref(b))
            /\ op' = Op("to_owned", <<>>, 0, deref(b))
            /\ ub' = FALSE
       ELSE /\ b' = b
            /\ op' = Op("to_owned", <<>>, 0, <<>>)
            /\ ub' = TRUE
    /\ UNCHANGED <<v1, v2, b2>>

\* ImString::from(&b): b.as_ref() is the Deref view, which is copied.
FromRef ==
    /\ ~ub
    /\ IF InBounds(b)
       THEN /\ b' = from_ref(deref(b))
            /\ op' = Op("from", <<>>, 0, deref(b))
            /\ ub' = FALSE
       ELSE /\ b' = b
            /\ op' = Op("from", <<>>, 0, <<>>)
            /\ ub' = TRUE
    /\ UNCHANGED <<v1, v2, b2>>

\* b.clone(), the clone taking b's place.
Clone ==
    /\ ~ub
    /\ b' = clone(b)
    /\ op' = Op("clone", <<>>, 0, <<>>)
    /\ UNCHANGED <<ub, v1, v2, b2>>

\* b.clear().
Clear ==
    /\ ~ub
    /\ \E c \in GrowCaps(Vec_clear(b), 1) :
            /\ b' = clear(b, c)
            /\ op' = Op("clear", <<>>, 0, <<>>)
    /\ UNCHANGED <<ub, v1, v2, b2>>

\* b.push_str(string).
PushStr ==
    /\ ~ub
    /\ \E string \in Texts :
         IF InBounds(b)
         THEN \E c1 \in GrowCaps(refresh_len(b), Len(string)) :
              \E c2 \in GrowCaps(
                          Vec_extend_from_slice(refresh_len(b), string, c1), 1) :
                 /\ b' = push_str(b, string, c1, c2)
                 /\ op' = Op("push_str", string, 0, <<>>)
                 /\ ub' = FALSE
         ELSE /\ b' = b
              /\ op' = Op("push_str", string, 0, <<>>)
              /\ ub' = TRUE
    /\ UNCHANGED <<v1, v2, b2>>

\* b.push(ch).
Push ==
    /\ ~ub
    /\ \E ch \in Chars :
         LET string == encode_utf8(ch)
         IN  IF InBounds(b)
             THEN \E c1 \in GrowCaps(refresh_len(b), Len(string)) :
                  \E c2 \in GrowCaps(
                          Vec_extend_from_slice(refresh_len(b), string, c1), 1) :
                     /\ b' = push(b, ch, c1, c2)
                     /\ op' = Op("push", string, ch, <<>>)
                     /\ ub' = FALSE
             ELSE /\ b' = b
                  /\ op' = Op("push", string, ch, <<>>)
                  /\ ub' = TRUE
    /\ UNCHANGED <<v1, v2, b2>>

\* b.reserve(additional).
Reserve ==
    /\ ~ub
    /\ \E additional \in 0..MaxAdditional : \E c \in GrowCaps(b, additional) :
            /\ b' = reserve(b, additional, c)
            /\ op' = Op("reserve", <<>>, additional, <<>>)
    /\ UNCHANGED <<ub, v1, v2, b2>>

\* b.reserve_exact(additional).
ReserveExact ==
    /\ ~ub
    /\ \E additional \in 0..MaxAdditional :
            /\ GrowCaps(b, additional) # {}
            /\ b' = reserve_exact(b, additional)
            /\ op' = Op("reserve_exact", <<>>, additional, <<>>)
    /\ UNCHANGED <<ub, v1, v2, b2>>

\* The foreign side writes one byte of the allocation through the pointer
\* of as_ptr / as_mut_ptr, leaving a terminator the scan reaches.
ForeignWrite ==
    /\ ~ub
    /\ \E i \in 1..b.cap : \E x \in TextBytes :
         LET m == [b EXCEPT !.mem[i] = x]
         IN  /\ InBounds(m)
             /\ b' = m
             /\ op' = Op("foreign", <<>>, 0, <<>>)
    /\ UNCHANGED <<ub, v1, v2, b2>>

\* &*b: the ImString is viewed as an ImStr.
Deref ==
    /\ ~ub
    /\ IF InBounds(b)
       THEN /\ op' = Op("deref", <<>>, 0, deref(b))
            /\ ub' = FALSE
       ELSE /\ op' = Op("deref", <<>>, 0, <<>>)
            /\ ub' = TRUE
    /\ UNCHANGED <<b, v1, v2, b2>>

Next ==
    \/ ToOwned
    \/ FromRef
    \/ Clone
    \/ Clear
    \/ PushStr
    \/ Push
    \/ Reserve
    \/ ReserveExact
    \/ ForeignWrite
    \/ Deref

Spec == Init /\ [][Next]_vars

---------------------------------------------------------------------------
(* The owning side alone: a constructor followed by reserve, reserve_exact, *)
(* push, push_str and clear, with no foreign write and no clone.            *)

NextOwn ==
    \/ Clear
    \/ PushStr
    \/ Push
    \/ Reserve
    \/ ReserveExact

SpecOwn == Init /\ [][NextOwn]_vars

---------------------------------------------------------------------------
(* Pairs of views.  A view is taken of a byte slice, or of an ImString in a *)
(* state the owning and the foreign side can bring it to.                   *)

\* The foreign side writes `bytes` from the start of the allocation.
ForeignFill(s, bytes) ==
    [s EXCEPT !.mem = [i \in 1..s.cap |->
                         IF i <= Len(bytes) THEN bytes[i] ELSE s.mem[i]]]

\* ImStrings to view: built by new, or by with_capacity (over-allocated)
\* and then written by the foreign side (possibly truncated in place).
Backings ==
    {new(t, Len(t), Len(t) + 1) : t \in Texts}
    \cup {ForeignFill(with_capacity(MaxSlice - 1), bytes) : bytes \in ByteSlices}

ViewOfBytes1 ==
    /\ \E bytes \in ByteSlices : v1' = ImStr_from_utf8_with_nul_unchecked(bytes)
    /\ UNCHANGED <<b, op, ub, v2, b2>>

ViewOfBytes2 ==
    /\ \E bytes \in ByteSlices : v2' = ImStr_from_utf8_with_nul_unchecked(bytes)
    /\ UNCHANGED <<b, op, ub, v1, b2>>

ViewOfString1 ==
    /\ \E s \in Backings : InBounds(s) /\ v1' = deref(s)
    /\ UNCHANGED <<b, op, ub, v2, b2>>

ViewOfString2 ==
    /\ \E s \in Backings : InBounds(s) /\ v2' = deref(s)
    /\ UNCHANGED <<b, op, ub, v1, b2>>

InitView ==
    /\ InitDefault
    /\ ub = FALSE
    /\ v1 = ImStr_default
    /\ v2 = ImStr_default
    /\ b2 = default

NextView ==
    \/ ViewOfBytes1
    \/ ViewOfBytes2
    \/ ViewOfString1
    \/ ViewOfString2

SpecView == InitView /\ [][NextView]_vars

---------------------------------------------------------------------------
(* Reference notions the claims are stated with *)

\* The logical text of an allocation: its bytes before the first zero byte.
LogicalText(mem) == SubSeq(mem, 1, FirstNul(mem) - 1)

\* The allocation holds a zero byte at an offset below capacity_with_nul().
HoldsTerminator(s) == \E i \in 1..capacity_with_nul(s) : s.mem[i] = NUL

\* A text without a zero byte.
NulFree(t) == \A i \in 1..Len(t) : t[i] # NUL

\* The stored length disagrees with the contents: the foreign side moved the
\* first zero byte since the owning side last set the length.
Stale(s) == HoldsTerminator(s) /\ s.len # FirstNul(s.mem)

---------------------------------------------------------------------------
(* C1 *)

\* C1: for every reachable ImString b and every text t (taken here without a
\* zero byte), after b.push_str(t), and after b.push(ch) with t the UTF-8
\* encoding of ch, b.to_str() is the logical text b had immediately before
\* the call, followed by t.
C1_PushStrAppends ==
    [][(op'.name \in {"push_str", "push"} /\ ~ub /\ NulFree(op'.text))
         => /\ ~ub'
            /\ HoldsTerminator(b)
            /\ InBounds(b')
            /\ to_str(deref(b')) = LogicalText(b.mem) \o op'.text]_vars

---------------------------------------------------------------------------
(* C2 *)

\* C2 (invariant I1): in every state the owning-side operations and the
\* foreign writes reach, the allocation holds a zero byte at an offset below
\* capacity_with_nul(), and is at least the logical text length plus one.
C2_I1 ==
    ~ub => /\ HoldsTerminator(b)
           /\ capacity_with_nul(b) >= Len(LogicalText(b.mem)) + 1

---------------------------------------------------------------------------
(* C3 *)

\* C3: viewing an ImString as an ImStr (Deref) always succeeds, and the
\* view's to_str() is exactly the bytes before the first zero byte of the
\* buffer, whatever the stored length and the capacity.
C3_DerefScans ==
    op.name = "deref"
      => /\ ~ub
         /\ HoldsTerminator(b)
         /\ to_str(op.view) = LogicalText(b.mem)

---------------------------------------------------------------------------
(* C4 *)

\* C4: for every view v, viewing the owned copy v.to_owned() (and
\* ImString::from(&v)) again yields exactly v.to_str().
C4_RoundTrip ==
    op.name \in {"to_owned", "from"}
      => /\ ~ub
         /\ InBounds(b)
         /\ to_str(deref(b)) = to_str(op.view)

---------------------------------------------------------------------------
(* C5 *)

\* C5 as stated: for all valid UTF-8 strings s, ImString::new(s).to_str()
\* is s, and its length is the length of s.
C5_NewRoundTrip_AnyText ==
    op.name = "new"
      => /\ InBounds(b)
         /\ to_str(deref(b)) = op.text
         /\ Len(to_str(deref(b))) = Len(op.text)

\* C5 as amended: for all valid UTF-8 strings s that contain no zero byte,
\* ImString::new(s).to_str() is s, and its length is the length of s.
C5_NewRoundTrip ==
    (op.name = "new" /\ NulFree(op.text))
      => /\ InBounds(b)
         /\ to_str(deref(b)) = op.text
         /\ Len(to_str(deref(b))) = Len(op.text)

\* A text of the longest length, without a zero byte, has been made an
\* ImString and reads back.
C5_Witness ==
    /\ op.name = "new"
    /\ Len(op.text) = MaxText
    /\ NulFree(op.text)
    /\ InBounds(b)
    /\ to_str(deref(b)) = op.text

---------------------------------------------------------------------------
(* C6 *)

\* C6: after reserve(n) or reserve_exact(n) on any reachable ImString,
\* capacity() is at least the current logical text length plus n.
C6_ReserveBeyondText ==
    [][(op'.name \in {"reserve", "reserve_exact"} /\ InBounds(b))
         => capacity(b') >= Len(to_str(deref(b))) + op'.n]_vars

---------------------------------------------------------------------------
(* C7 *)

\* C7: any two views whose to_str() results are equal compare equal (==,
\* Ord) and hash equal, whatever storage each view points into.
C7_ViewsByText ==
    to_str(v1) = to_str(v2)
      => /\ CStr_eq(v1, v2)
         /\ CStr_cmp(v1, v2) = "Equal"
         /\ CStr_hash(v1) = CStr_hash(v2)

---------------------------------------------------------------------------
(* C8 *)

\* C8: for every reachable ImString, clear() leaves the buffer holding a
\* single terminator byte, so that to_str() is empty, and capacity() after
\* clear() equals capacity() before it.
C8_ClearKeepsCapacity ==
    [][op'.name = "clear"
         => /\ b'.len = 1
            /\ b'.mem[1] = NUL
            /\ to_str(deref(b')) = <<>>
            /\ capacity(b') = capacity(b)]_vars

---------------------------------------------------------------------------
(* C9 *)

\* C9: reserve(n) and reserve_exact(n) never decrease capacity() and leave
\* the logical text unchanged, for every reachable ImString.
C9_ReserveFrame ==
    [][op'.name \in {"reserve", "reserve_exact"}
         => /\ capacity(b') >= capacity(b)
            /\ InBounds(b)
            /\ InBounds(b')
            /\ to_str(deref(b')) = to_str(deref(b))]_vars

---------------------------------------------------------------------------
(* C10 *)

\* C10: capacity_with_nul() = capacity() + 1, capacity() not having wrapped
\* below zero, in every state reached by a constructor followed by reserve,
\* reserve_exact, push, push_str and clear.
C10_CapacityPlusOne ==
    ~ub /\ capacity_with_nul(b) = capacity(b) + 1

\* An ImString that has been grown by the owning side reports both capacities.
C10_Witness ==
    /\ op.name \in {"reserve", "push_str"}
    /\ capacity_with_nul(b) = MaxCap
    /\ capacity(b) = MaxCap - 1

---------------------------------------------------------------------------
(* C11 *)

\* C11 (invariant I3): for a view of a byte slice that is valid UTF-8 and
\* holds a zero byte somewhere within its range, and for a view of an
\* ImString, to_str() has the length of the offset of the first zero byte of
\* the viewed bytes, not the length of the slice less one.
C11_I3 ==
    Len(to_str(v1)) = FirstNul(v1) - 1

---------------------------------------------------------------------------
(* Pairs of ImStrings.  Each is built by a constructor of its own and then  *)
(* written in place by the foreign side.                                    *)

\* The slice a Vec derefs to: its first `len` bytes.
Vec_as_slice(s) == SubSeq(s.mem, 1, s.len)

\* derive(PartialEq, Eq) on ImString: the Vecs are compared as slices.
ImString_eq(x, y) == Vec_as_slice(x) = Vec_as_slice(y)

\* derive(PartialOrd, Ord) on ImString: the Vecs are compared as slices.
ImString_cmp(x, y) == slice_cmp(Vec_as_slice(x), Vec_as_slice(y))

\* derive(Hash) on ImString: the hasher is fed the Vec's length and its
\* bytes.  Two hashes are sure to agree only on equal feeds.
ImString_hash(x) == <<x.len>> \o Vec_as_slice(x)

\* Debug for ImString: the Debug form of to_str(), the text between quotes
\* (34 is the double quote).
ImString_debug(x) == <<34>> \o to_str(deref(x)) \o <<34>>

\* The texts b.push_str(string) may leave, over the capacities the growth
\* may choose (none when the result is beyond MaxCap).
PushStrTexts(s, string) ==
    {to_str(deref(push_str(s, string, c1, c2))) :
        <<c1, c2>> \in
          {cc \in (0..MaxCap) \X (0..MaxCap) :
             /\ cc[1] \in GrowCaps(refresh_len(s), Len(string))
             /\ cc[2] \in GrowCaps(
                   Vec_extend_from_slice(refresh_len(s), string, cc[1]), 1)}}

\* The foreign side writes one byte of the second ImString's allocation.
ForeignWriteOther ==
    /\ ~ub
    /\ \E i \in 1..b2.cap : \E x \in TextBytes :
         LET m == [b2 EXCEPT !.mem[i] = x]
         IN  /\ InBounds(m)
             /\ b2' = m
    /\ UNCHANGED <<b, op, ub, v1, v2>>

\* Two ImStrings after construction, by any two of the constructors.
InitPair ==
    /\ InitNew \/ InitWithCapacity \/ InitDefault \/ InitToOwned \/ InitFromRef
    /\ b2 \in {new(t, Len(t), Len(t) + 1) : t \in Texts}
              \cup {with_capacity(n) : n \in 0..(MaxCap - 1)}
              \cup {to_owned(ImStr_from_utf8_with_nul_unchecked(bytes)) :
                      bytes \in ByteSlices}
    /\ ub = FALSE
    /\ v1 = ImStr_default
    /\ v2 = ImStr_default

NextPair ==
    \/ ForeignWrite
    \/ ForeignWriteOther

SpecPair == InitPair /\ [][NextPair]_vars

---------------------------------------------------------------------------
(* C12 *)

\* C12: for any two ImStrings with the same bytes before their first zero
\* byte, whatever their stored lengths and the bytes after that zero byte,
\* to_str, Debug, ==, Ord, Hash and the text after a subsequent push_str(t)
\* are identical.
C12_ByLogicalText ==
    (InBounds(b) /\ InBounds(b2) /\ LogicalText(b.mem) = LogicalText(b2.mem))
      => /\ to_str(deref(b)) = to_str(deref(b2))
         /\ ImString_debug(b) = ImString_debug(b2)
         /\ ImString_eq(b, b2)
         /\ ImString_cmp(b, b2) = "Equal"
         /\ ImString_hash(b) = ImString_hash(b2)
         /\ \A t \in Texts :
              (PushStrTexts(b, t) # {} /\ PushStrTexts(b2, t) # {})
                => PushStrTexts(b, t) = PushStrTexts(b2, t)

---------------------------------------------------------------------------
(* C13 *)

\* C13: for every reachable ImString b (one made by with_capacity and then
\* written in place, and one made by ImStr::to_owned, included), b.clone()
\* owns an allocation that holds a zero byte, and b.clone().to_str() is
\* b.to_str().
C13_ClonePreservesText ==
    [][(op'.name = "clone" /\ InBounds(b))
         => /\ HoldsTerminator(b')
            /\ InBounds(b')
            /\ to_str(deref(b')) = to_str(deref(b))]_vars

---------------------------------------------------------------------------
(* C14 *)

\* C14: for every view v, v.to_owned() stores v's text followed by exactly
\* one terminator byte inside the stored length (stored length = text
\* length + 1), so that v.to_owned() == ImString::new(v.to_str()) and the
\* two hash equal.
C14_ToOwnedLikeNew ==
    (op.name = "to_owned" /\ ~ub)
      => LET text == to_str(op.view)
             made == new(text, Len(text), Len(text) + 1)
         IN  /\ b.len = Len(text) + 1
             /\ Vec_as_slice(b) = text \o <<NUL>>
             /\ ImString_eq(b, made)
             /\ ImString_hash(b) = ImString_hash(made)

---------------------------------------------------------------------------
(* C15 *)

\* C15: for every reachable ImString b with logical length L (the offset of
\* its first zero byte, after any foreign truncation) and every text t with
\* L + len(t) + 1 <= b.capacity_with_nul(), push_str(t) (and push of a char
\* encoded as t) leaves capacity_with_nul() unchanged: the Vec does not
\* grow, so the allocation is not moved.
C15_FittingAppendStays ==
    [][(/\ op'.name \in {"push_str", "push"}
        /\ ~ub
        /\ InBounds(b)
        /\ Len(LogicalText(b.mem)) + Len(op'.text) + 1 <= capacity_with_nul(b))
         => /\ ~ub'
            /\ capacity_with_nul(b') = capacity_with_nul(b)
            /\ Len(b'.mem) = Len(b.mem)]_vars

\* A non-empty text has been appended and the last byte of the allocation,
\* behind the new terminator, is a written one: the append did not write it
\* and a grown allocation ends in spare capacity, so the allocation is the
\* one from before the call, which held longer contents (the text was cut
\* in place, or the terminator stood behind the stored length) and had room
\* for the append.
C15_Witness ==
    /\ op.name = "push_str"
    /\ Len(op.text) >= 1
    /\ NulFree(op.text)
    /\ ~ub
    /\ b.len < b.cap
    /\ b.mem[b.cap] # UNINIT

==========================================================================
